---------------------------- MODULE Spec2Model ----------------------------
(***************************************************************************)
(* A model of the barber-shop receptionist agent: the JSON-file domain     *)
(* store and its operations (tools.py) and the conversational agent that   *)
(* extracts tool invocations from a model reply, executes them and formats *)
(* the results (agent.py).                                                 *)
(*                                                                         *)
(* Python text is a sequence of one-character strings, so that the         *)
(* regular-expression scan, the argument split, the numeric coercion and   *)
(* the keyword match are computed character by character as the code       *)
(* computes them.  A Python value is a tagged tuple: <<"str", chars>>,     *)
(* <<"int", n>>, <<"float", whole, frac>>, <<"dict", f>>, <<"list", s>>.   *)
(***************************************************************************)
EXTENDS Integers, Sequences, FiniteSets, TLC

VARIABLES
    files,                        \* path -> state of the JSON file on disk
    conversation_history,         \* self.conversation_history
    current_appointment_context,  \* self.current_appointment_context
    ret,                          \* the last completed call and its outcome
    pc,                           \* per process: position in book_appointment
    frame                         \* per process: locals of book_appointment

vars ==
    <<files, conversation_history, current_appointment_context, ret, pc, frame>>

---------------------------------------------------------------------------
(* Python values *)

Str(s) ==
    <<"str", s>>

PyInt(n) ==
    <<"int", n>>

Dict(f) ==
    <<"dict", f>>

List(s) ==
    <<"list", s>>

IsStr(v) ==
    v[1] = "str"

IsInt(v) ==
    v[1] = "int"

IsFloat(v) ==
    v[1] = "float"

IsList(v) ==
    v[1] = "list"

EmptyDict ==
    Dict(<<>>)

\* x in seq, for a Python list held as a sequence
InList(x, s) ==
    \E i \in DOMAIN s : s[i] = x

\* a call either returns a value or raises an exception
Return(v) ==
    [raised |-> FALSE, value |-> v]

Raise(exc, msg) ==
    [raised |-> TRUE, exc |-> exc, msg |-> msg]

---------------------------------------------------------------------------
(* Text constants of the source and of the data files *)

\* get_business_info
GET_BUSINESS_INFO ==
    <<"g","e","t","_","b","u","s","i","n","e","s","s","_","i","n","f","o">>
\* get_services
GET_SERVICES ==
    <<"g","e","t","_","s","e","r","v","i","c","e","s">>
\* check_availability
CHECK_AVAILABILITY ==
    <<"c","h","e","c","k","_","a","v","a","i","l","a","b","i","l","i","t","y">>
\* book_appointment
BOOK_APPOINTMENT ==
    <<"b","o","o","k","_","a","p","p","o","i","n","t","m","e","n","t">>
\* send_email_confirmation
SEND_EMAIL_CONFIRMATION ==
    <<"s","e","n","d","_","e","m","a","i","l","_","c","o","n","f","i","r","m","a","t","i","o","n">>
\* hours
HOURS ==
    <<"h","o","u","r","s">>
\* contact
CONTACT ==
    <<"c","o","n","t","a","c","t">>
\* address
ADDRESS ==
    <<"a","d","d","r","e","s","s">>
\* all
ALL ==
    <<"a","l","l">>
\* 2025-06-02
DATE_0602 ==
    <<"2","0","2","5","-","0","6","-","0","2">>
\* 2025-06-03
DATE_0603 ==
    <<"2","0","2","5","-","0","6","-","0","3">>
\* 2099-01-01
DATE_2099 ==
    <<"2","0","9","9","-","0","1","-","0","1">>
\* 09:00
T0900 ==
    <<"0","9",":","0","0">>
\* 09:30
T0930 ==
    <<"0","9",":","3","0">>
\* 10:00
T1000 ==
    <<"1","0",":","0","0">>
\* 23:00
T2300 ==
    <<"2","3",":","0","0">>
\* APT-
APT_PREFIX ==
    <<"A","P","T","-">>
\* A1B
SUFFIX_A1B ==
    <<"A","1","B">>
\* 7F3
SUFFIX_7F3 ==
    <<"7","F","3">>
\* Jane
JANE ==
    <<"J","a","n","e">>
\* 555-1111
PHONE ==
    <<"5","5","5","-","1","1","1","1">>
\* jane@x.com
EMAIL ==
    <<"j","a","n","e","@","x",".","c","o","m">>
\* Haircut
HAIRCUT ==
    <<"H","a","i","r","c","u","t">>

---------------------------------------------------------------------------
(* The file system: tools.py reads and writes four JSON documents *)

BUSINESS_INFO_JSON ==
    "data/business_info.json"

SERVICES_JSON ==
    "data/services.json"

CALENDAR_JSON ==
    "data/calendar.json"

APPOINTMENTS_JSON ==
    "appointments.json"

Paths ==
    {BUSINESS_INFO_JSON, SERVICES_JSON, CALENDAR_JSON, APPOINTMENTS_JSON}

\* the file does not exist: open() raises FileNotFoundError
Absent ==
    [kind |-> "absent"]

\* the file holds the JSON document doc
Json(doc) ==
    [kind |-> "json", doc |-> doc]

\* the file holds no JSON document: it was opened with mode 'w' and is not
\* yet written, or two writers' bytes overlap; json.load raises
\* JSONDecodeError.  was: the last document the file held, which no
\* operation can read any more
Undecodable(was) ==
    [kind |-> "undecodable", was |-> was]

\* the except clauses of load_json_file: a missing or undecodable file is {}
load_json_file(fs, file_path) ==
    IF fs[file_path].kind = "json" THEN fs[file_path].doc ELSE EmptyDict

\* the last complete document written to the file ({} if there is none)
LastDocument(fs, file_path) ==
    IF fs[file_path].kind = "json" THEN fs[file_path].doc
    ELSE IF fs[file_path].kind = "undecodable" THEN fs[file_path].was
    ELSE EmptyDict

\* open(file_path, 'w'): creates or truncates the file
open_w(fs, file_path) ==
    [fs EXCEPT ![file_path] = Undecodable(LastDocument(fs, file_path))]

\* json.dump and close: the document is on disk
dump(fs, file_path, data) ==
    [fs EXCEPT ![file_path] = Json(data)]

save_json_file(fs, file_path, data) ==
    dump(open_w(fs, file_path), file_path, data)

---------------------------------------------------------------------------
(* get_business_info, get_services *)

\* business_data[key] of a dict literal being built: KeyError on a miss
MissingKey(d, keys) ==
    CHOOSE i \in 1..Len(keys) :
        /\ keys[i] \notin DOMAIN d[2]
        /\ \A j \in 1..(i - 1) : keys[j] \in DOMAIN d[2]

Project(d, keys, names) ==
    IF \A i \in 1..Len(keys) : keys[i] \in DOMAIN d[2]
    THEN Return(Dict([n \in {names[i] : i \in 1..Len(names)} |->
                        d[2][keys[CHOOSE i \in 1..Len(names) : names[i] = n]]]))
    ELSE Raise("KeyError", "'" \o keys[MissingKey(d, keys)] \o "'")

get_business_info(fs, info_type) ==
    LET business_data == load_json_file(fs, BUSINESS_INFO_JSON) IN
    IF info_type = Str(HOURS)
    THEN Project(business_data, <<"working_hours", "hours", "timezone">>,
                 <<"working_hours", "detailed_hours", "timezone">>)
    ELSE IF info_type = Str(CONTACT)
    THEN Project(business_data, <<"phone", "name">>, <<"phone", "name">>)
    ELSE IF info_type = Str(ADDRESS)
    THEN Project(business_data, <<"address", "name">>, <<"address", "name">>)
    ELSE IF info_type = Str(ALL)
    THEN Return(business_data)
    ELSE Return(Dict([error |-> <<"Unknown info type: ", info_type>>]))

get_services(fs) ==
    Return(load_json_file(fs, SERVICES_JSON))

---------------------------------------------------------------------------
(* check_availability *)

\* date in calendar_data: the keys of the calendar document are strings
KeyIn(key, d) ==
    IsStr(key) /\ key[2] \in DOMAIN d[2]

\* day_data.get(key, [])
GetList(day_data, key) ==
    IF key \in DOMAIN day_data THEN day_data[key] ELSE <<>>

\* [slot for slot in available_slots if slot not in booked_slots]
TrulyAvailable(available_slots, booked_slots) ==
    SelectSeq(available_slots, LAMBDA slot : ~InList(slot, booked_slots))

slot_duration ==
    30

\* duration_minutes <= slot_duration, for a number
LeSlotDuration(duration_minutes) ==
    IF IsInt(duration_minutes)
    THEN duration_minutes[2] <= slot_duration
    ELSE \/ duration_minutes[2] = "-"
         \/ duration_minutes[3] < slot_duration
         \/ duration_minutes[3] = slot_duration /\ duration_minutes[4] = <<>>

\* (duration_minutes + slot_duration - 1) // slot_duration
\* a slot count that rounds down
SlotsNeededFloor(minutes) ==
    minutes \div slot_duration

SlotsNeeded(minutes) ==
    (minutes + slot_duration - 1) \div slot_duration

\* the start time of every window of slots_needed entries of the list
Windows(truly_available, slots_needed) ==
    [i \in 1..(IF Len(truly_available) - slots_needed + 1 > 0
               THEN Len(truly_available) - slots_needed + 1 ELSE 0)
       |-> truly_available[i]]

SuitableSlots(truly_available, minutes) ==
    IF minutes <= slot_duration
    THEN truly_available
    ELSE Windows(truly_available, SlotsNeeded(minutes))

check_availability(fs, date, duration_minutes) ==
    LET calendar_data == load_json_file(fs, CALENDAR_JSON) IN
    IF ~KeyIn(date, calendar_data)
    THEN Return(Dict([available |-> FALSE,
                      message |-> <<"No calendar data available for ", date>>,
                      available_slots |-> <<>>]))
    ELSE
    LET day_data == calendar_data[2][date[2]]
        available_slots == GetList(day_data, "available_slots")
        booked_slots == GetList(day_data, "booked_slots")
        truly_available == TrulyAvailable(available_slots, booked_slots)
    IN
    IF ~(IsInt(duration_minutes) \/ IsFloat(duration_minutes))
    THEN Raise("TypeError", "'<=' not supported between instances")
    ELSE IF LeSlotDuration(duration_minutes)
    THEN Return(Dict([available |-> Len(truly_available) > 0,
                      available_slots |-> truly_available,
                      duration_minutes |-> duration_minutes,
                      date |-> date,
                      message |-> <<"Found ", Len(truly_available),
                                    " available slots for ", duration_minutes,
                                    " minutes">>]))
    ELSE IF IsFloat(duration_minutes)
    THEN Raise("TypeError", "'float' object cannot be interpreted as an integer")
    ELSE
    LET suitable_slots == SuitableSlots(truly_available, duration_minutes[2]) IN
    Return(Dict([available |-> Len(suitable_slots) > 0,
                 available_slots |-> suitable_slots,
                 duration_minutes |-> duration_minutes,
                 date |-> date,
                 message |-> <<"Found ", Len(suitable_slots),
                               " available slots for ", duration_minutes,
                               " minutes">>]))

---------------------------------------------------------------------------
(* book_appointment *)

\* s.replace(c, '')
RECURSIVE Remove(_, _)
Remove(s, c) ==
    IF s = <<>> THEN <<>>
    ELSE IF Head(s) = c THEN Remove(Tail(s), c)
    ELSE <<Head(s)>> \o Remove(Tail(s), c)

\* f"APT-{date.replace('-', '')}-{str(uuid.uuid4())[:3].upper()}"
AppointmentId(date, suffix) ==
    Str(APT_PREFIX \o Remove(date[2], "-") \o <<"-">> \o suffix)

NewAppointment(customer_name, customer_phone, customer_email, date, time, services, total_price, duration_minutes, e) ==
    [id |-> AppointmentId(date, e.suffix),
     customer |-> [name |-> customer_name,
                   phone |-> customer_phone,
                   email |-> customer_email],
     appointment |-> [date |-> date,
                      time |-> time,
                      services |-> services,
                      total_price |-> total_price,
                      duration_minutes |-> duration_minutes],
     created_at |-> e.now,
     status |-> "confirmed"]

\* appointments = load_json_file(...); if not a list: []; append
WithAppointment(loaded, appointment) ==
    List(Append(IF IsList(loaded) THEN loaded[2] ELSE <<>>, appointment))

\* a calendar update that skips a time that is already booked
WithBookedSlotOnce(calendar_data, date, time) ==
    IF InList(time, GetList(calendar_data[2][date[2]], "booked_slots"))
    THEN calendar_data
    ELSE Dict([calendar_data[2] EXCEPT ![date[2]] =
            [k \in DOMAIN calendar_data[2][date[2]] \cup {"booked_slots"} |->
                IF k = "booked_slots"
                THEN Append(GetList(calendar_data[2][date[2]], "booked_slots"), time)
                ELSE calendar_data[2][date[2]][k]]])

\* calendar_data[date]['booked_slots'].append(time), the key created if missing
WithBookedSlot(calendar_data, date, time) ==
    LET day_data == calendar_data[2][date[2]]
        booked_slots == Append(GetList(day_data, "booked_slots"), time)
    IN
    Dict([calendar_data[2] EXCEPT ![date[2]] =
            [k \in DOMAIN day_data \cup {"booked_slots"} |->
                IF k = "booked_slots" THEN booked_slots ELSE day_data[k]]])

BookingResult(appointment, date, time) ==
    Dict([success |-> TRUE,
          appointment_id |-> appointment.id,
          appointment |-> appointment,
          message |-> <<"Appointment ", appointment.id,
                        " successfully booked for ", date, " at ", time>>])

\* a booking that leaves the calendar as it was
MarkBookedNowhere(fs, date, time) ==
    fs

\* the calendar part of book_appointment, on the files as they now are
MarkBooked(fs, date, time) ==
    LET calendar_data == load_json_file(fs, CALENDAR_JSON) IN
    IF KeyIn(date, calendar_data)
    THEN save_json_file(fs, CALENDAR_JSON, WithBookedSlot(calendar_data, date, time))
    ELSE fs

book_appointment(fs, customer_name, customer_phone, customer_email, date, time, services, total_price, duration_minutes, e) ==
    IF ~IsStr(date)
    THEN [fs |-> fs,
          out |-> Raise("AttributeError", "object has no attribute 'replace'")]
    ELSE
    LET appointment == NewAppointment(customer_name, customer_phone,
                           customer_email, date, time, services, total_price,
                           duration_minutes, e)
        appointments == WithAppointment(load_json_file(fs, APPOINTMENTS_JSON),
                                        appointment)
        fs1 == save_json_file(fs, APPOINTMENTS_JSON, appointments)
    IN [fs |-> MarkBooked(fs1, date, time),
        out |-> Return(BookingResult(appointment, date, time))]

send_email_confirmation(appointment_id, customer_email) ==
    Return(Dict([success |-> TRUE,
                 message |-> <<"Confirmation email sent to ", customer_email>>,
                 appointment_id |-> appointment_id]))

---------------------------------------------------------------------------
(* The tool registry and the executor *)

AVAILABLE_TOOLS ==
    {GET_BUSINESS_INFO, GET_SERVICES, CHECK_AVAILABILITY, BOOK_APPOINTMENT,
     SEND_EMAIL_CONFIRMATION}

\* the number of positional parameters of each registered function
Arity(tool_name) ==
    IF tool_name = GET_BUSINESS_INFO THEN 1
    ELSE IF tool_name = GET_SERVICES THEN 0
    ELSE IF tool_name = CHECK_AVAILABILITY THEN 2
    ELSE IF tool_name = BOOK_APPOINTMENT THEN 8
    ELSE 2

\* tool_function(*args): the files after the call and its outcome
CallTool(fs, tool_name, args, e) ==
    IF Len(args) # Arity(tool_name)
    THEN [fs |-> fs, out |-> Raise("TypeError", "wrong number of positional arguments")]
    ELSE IF tool_name = GET_BUSINESS_INFO
    THEN [fs |-> fs, out |-> get_business_info(fs, args[1])]
    ELSE IF tool_name = GET_SERVICES
    THEN [fs |-> fs, out |-> get_services(fs)]
    ELSE IF tool_name = CHECK_AVAILABILITY
    THEN [fs |-> fs, out |-> check_availability(fs, args[1], args[2])]
    ELSE IF tool_name = BOOK_APPOINTMENT
    THEN book_appointment(fs, args[1], args[2], args[3], args[4], args[5], args[6], args[7], args[8], e)
    ELSE [fs |-> fs, out |-> send_email_confirmation(args[1], args[2])]

\* _execute_tool: the files after the call and the result envelope
execute_tool(fs, tool_name, args, e) ==
    IF tool_name \notin AVAILABLE_TOOLS
    THEN [fs |-> fs, out |-> [error |-> <<"Unknown tool: ", tool_name>>]]
    ELSE
    LET call == CallTool(fs, tool_name, args, e) IN
    IF call.out.raised
    THEN [fs |-> call.fs,
          out |-> [success |-> FALSE,
                   error |-> call.out.msg,
                   tool_name |-> tool_name]]
    ELSE [fs |-> call.fs,
          out |-> [success |-> TRUE,
                   result |-> call.out.value,
                   tool_name |-> tool_name]]

---------------------------------------------------------------------------
(* Text: character classes and the str methods the agent uses *)

Digits ==
    <<"0","1","2","3","4","5","6","7","8","9">>

Digit ==
    {Digits[i] : i \in 1..10}

UpperCase ==
    <<"A","B","C","D","E","F","G","H","I","J","K","L","M",
      "N","O","P","Q","R","S","T","U","V","W","X","Y","Z">>

LowerCase ==
    <<"a","b","c","d","e","f","g","h","i","j","k","l","m",
      "n","o","p","q","r","s","t","u","v","w","x","y","z">>

\* \w of the re module
WordChar ==
    Digit \cup {UpperCase[i] : i \in 1..26} \cup {LowerCase[i] : i \in 1..26} \cup {"_"}

\* \s of the re module, and the characters str.strip() removes
WhiteSpace ==
    {" ", "\t", "\n", "\r", "\f"}

Quotes ==
    {"\"", "'"}

\* t[i:j], 1-based and inclusive; empty when j < i
Slice(t, i, j) ==
    [k \in 1..(IF j >= i THEN j - i + 1 ELSE 0) |-> t[i + k - 1]]

\* the first position from i on whose character is outside S (Len(t)+1 if none)
SkipWhile(t, i, S) ==
    CHOOSE j \in i..(Len(t) + 1) :
        /\ j = Len(t) + 1 \/ t[j] \notin S
        /\ \A k \in i..(j - 1) : t[k] \in S

\* the last position up to j whose character is outside S (i-1 if none)
SkipBack(t, i, j, S) ==
    CHOOSE k \in (i - 1)..j :
        /\ k = i - 1 \/ t[k] \notin S
        /\ \A l \in (k + 1)..j : t[l] \in S

\* s.strip(chars)
Strip(s, S) ==
    LET i == SkipWhile(s, 1, S) IN Slice(s, i, SkipBack(s, i, Len(s), S))

\* lit occurs in t at position i
StartsAt(t, i, lit) ==
    /\ i + Len(lit) - 1 <= Len(t)
    /\ \A k \in 1..Len(lit) : t[i + k - 1] = lit[k]

\* sub in t
Contains(t, sub) ==
    \E i \in 1..(Len(t) + 1) : StartsAt(t, i, sub)

\* c.lower() for one character
LowerChar(c) ==
    IF \E i \in 1..26 : UpperCase[i] = c
    THEN LowerCase[CHOOSE i \in 1..26 : UpperCase[i] = c]
    ELSE c

\* s.lower()
Lower(s) ==
    [i \in 1..Len(s) |-> LowerChar(s[i])]

\* s.split(','): the pieces between the commas, from position i on
RECURSIVE SplitFrom(_, _, _)
SplitFrom(s, i, sep) ==
    LET j == SkipWhile(s, i, {c \in {s[k] : k \in 1..Len(s)} : c # sep}) IN
    IF j > Len(s)
    THEN <<Slice(s, i, Len(s))>>
    ELSE <<Slice(s, i, j - 1)>> \o SplitFrom(s, j + 1, sep)

Split(s, sep) ==
    SplitFrom(s, 1, sep)

\* the number a string of digits denotes
RECURSIVE DigitsValue(_)
DigitsValue(s) ==
    IF s = <<>> THEN 0
    ELSE 10 * DigitsValue(Slice(s, 1, Len(s) - 1))
         + (CHOOSE d \in 0..9 : Digits[d + 1] = s[Len(s)])

\* digits, single underscores allowed between them
IsDigitString(s) ==
    /\ s # <<>>
    /\ \A i \in 1..Len(s) : s[i] \in Digit \cup {"_"}
    /\ s[1] # "_" /\ s[Len(s)] # "_"
    /\ \A i \in 1..(Len(s) - 1) : ~(s[i] = "_" /\ s[i + 1] = "_")

\* the text without its sign
Unsigned(s) ==
    IF s # <<>> /\ s[1] \in {"+", "-"} THEN Slice(s, 2, Len(s)) ELSE s

SignOf(s) ==
    IF s # <<>> /\ s[1] = "-" THEN "-" ELSE "+"

\* int(part): a ValueError unless the text is an optionally signed digit string
IntParses(part) ==
    IsDigitString(Unsigned(Strip(part, WhiteSpace)))

IntValue(part) ==
    LET s == Strip(part, WhiteSpace)
        n == DigitsValue(Remove(Unsigned(s), "_"))
    IN IF SignOf(s) = "-" THEN 0 - n ELSE n

\* float(part) for decimal-point notation: [sign] digits . digits, one side
\* of the point may be empty
FloatParses(part) ==
    LET s == Unsigned(Strip(part, WhiteSpace))
        pieces == Split(s, ".")
    IN /\ Len(pieces) = 2
       /\ pieces[1] # <<>> \/ pieces[2] # <<>>
       /\ pieces[1] = <<>> \/ IsDigitString(pieces[1])
       /\ pieces[2] = <<>> \/ IsDigitString(pieces[2])

FloatValue(part) ==
    LET s == Strip(part, WhiteSpace)
        pieces == Split(Unsigned(s), ".")
        frac == Remove(pieces[2], "_")
    IN <<"float", SignOf(s), DigitsValue(Remove(pieces[1], "_")),
         Slice(frac, 1, SkipBack(frac, 1, Len(frac), {"0"}))>>

---------------------------------------------------------------------------
(* _extract_tool_calls *)

TOOL_COLON ==
    <<"T","O","O","L",":">>

NoMatch ==
    [ok |-> FALSE]

\* r'TOOL:\s*(\w+)\((.*?)\)' tried at position i
MatchToolPattern(t, i) ==
    IF ~StartsAt(t, i, TOOL_COLON) THEN NoMatch
    ELSE
    LET n == SkipWhile(t, i + 5, WhiteSpace)
        p == SkipWhile(t, n, WordChar)
    IN
    IF p = n \/ p > Len(t) \/ t[p] # "(" THEN NoMatch
    ELSE IF ~\E q \in (p + 1)..Len(t) : t[q] = ")" THEN NoMatch
    ELSE
    LET q == CHOOSE q \in (p + 1)..Len(t) :
                 t[q] = ")" /\ \A k \in (p + 1)..(q - 1) : t[k] # ")"
    IN [ok |-> TRUE, name |-> Slice(t, n, p - 1),
        args |-> Slice(t, p + 1, q - 1), end |-> q]

\* r'\[(\w+)\((.*?)\)\]' tried at position i
MatchBracketPattern(t, i) ==
    IF i > Len(t) \/ t[i] # "[" THEN NoMatch
    ELSE
    LET n == i + 1
        p == SkipWhile(t, n, WordChar)
    IN
    IF p = n \/ p > Len(t) \/ t[p] # "(" THEN NoMatch
    ELSE IF ~\E q \in (p + 1)..(Len(t) - 1) : t[q] = ")" /\ t[q + 1] = "]"
    THEN NoMatch
    ELSE
    LET q == CHOOSE q \in (p + 1)..(Len(t) - 1) :
                 /\ t[q] = ")" /\ t[q + 1] = "]"
                 /\ \A k \in (p + 1)..(q - 1) : ~(t[k] = ")" /\ t[k + 1] = "]")
    IN [ok |-> TRUE, name |-> Slice(t, n, p - 1),
        args |-> Slice(t, p + 1, q - 1), end |-> q + 1]

PatternMatch(pattern, t, i) ==
    IF pattern = 1 THEN MatchToolPattern(t, i) ELSE MatchBracketPattern(t, i)

\* re.findall(pattern, response, re.DOTALL): the non-overlapping matches,
\* left to right, from position i on
RECURSIVE FindAllFrom(_, _, _)
\* the first position from i on where the pattern matches
FirstMatchFrom(pattern, t, i) ==
    CHOOSE p \in i..Len(t) :
        /\ PatternMatch(pattern, t, p).ok
        /\ \A k \in i..(p - 1) : ~PatternMatch(pattern, t, k).ok

\* the match m, then the matches after its end
MatchesOnward(pattern, t, m) ==
    <<<<m.name, m.args>>>> \o FindAllFrom(pattern, t, m.end + 1)

FindAllFrom(pattern, t, i) ==
    IF ~\E p \in i..Len(t) : PatternMatch(pattern, t, p).ok THEN <<>>
    ELSE MatchesOnward(pattern, t,
             PatternMatch(pattern, t, FirstMatchFrom(pattern, t, i)))

FindAll(pattern, t) ==
    FindAllFrom(pattern, t, 1)

\* the value of one piece: float if it has a '.', else int, else the text
Coerce(part) ==
    IF "." \in {part[k] : k \in 1..Len(part)}
    THEN IF FloatParses(part) THEN FloatValue(part) ELSE Str(part)
    ELSE IF IntParses(part) THEN PyInt(IntValue(part)) ELSE Str(part)

\* arg.strip().strip('"\'') of every piece of args_str.split(','), coerced
ParseArgs(args_str) ==
    IF Strip(args_str, WhiteSpace) = <<>> THEN <<>>
    ELSE LET pieces == Split(args_str, ",") IN
         [k \in 1..Len(pieces) |->
             Coerce(Strip(Strip(pieces[k], WhiteSpace), Quotes))]

\* an extraction that collects the bracketed matches first
BracketedFirst(response) ==
    LET matches == FindAll(2, response) \o FindAll(1, response) IN
    [k \in 1..Len(matches) |->
        [tool_name |-> matches[k][1], args |-> ParseArgs(matches[k][2])]]

extract_tool_calls(response) ==
    LET matches == FindAll(1, response) \o FindAll(2, response) IN
    [k \in 1..Len(matches) |->
        [tool_name |-> matches[k][1], args |-> ParseArgs(matches[k][2])]]

---------------------------------------------------------------------------
(* _should_use_tools *)

\* randevu
KW_RANDEVU ==
    <<"r","a","n","d","e","v","u">>
\* appointment
KW_APPOINTMENT ==
    <<"a","p","p","o","i","n","t","m","e","n","t">>
\* book
KW_BOOK ==
    <<"b","o","o","k">>
\* rezervasyon
KW_REZERVASYON ==
    <<"r","e","z","e","r","v","a","s","y","o","n">>
\* fiyat
KW_FIYAT ==
    <<"f","i","y","a","t">>
\* price
KW_PRICE ==
    <<"p","r","i","c","e">>
\* hizmet
KW_HIZMET ==
    <<"h","i","z","m","e","t">>
\* service
KW_SERVICE ==
    <<"s","e","r","v","i","c","e">>
\* available
KW_AVAILABLE ==
    <<"a","v","a","i","l","a","b","l","e">>
\* saat
KW_SAAT ==
    <<"s","a","a","t">>
\* time
KW_TIME ==
    <<"t","i","m","e">>
\* hours
KW_HOURS ==
    <<"h","o","u","r","s">>
\* contact
KW_CONTACT ==
    <<"c","o","n","t","a","c","t">>
\* the three keywords with characters outside ASCII, as the source file
\* spells them; such a character is one token named by its code point
KW_MUSAIT ==
    <<"m","U+221A","U+00BA","s","a","i","t">>

KW_CALISMA_SAATLERI ==
    <<"U+221A","U+00DF","a","l","U+0192","U+00B1","U+2248","U+00FC","m","a",
      " ","s","a","a","t","l","e","r","i">>

KW_ILETISIM ==
    <<"i","l","e","t","i","U+2248","U+00FC","i","m">>

tool_keywords ==
    <<KW_RANDEVU, KW_APPOINTMENT, KW_BOOK, KW_REZERVASYON,
      KW_FIYAT, KW_PRICE, KW_HIZMET, KW_SERVICE,
      KW_MUSAIT, KW_AVAILABLE, KW_SAAT, KW_TIME,
      KW_CALISMA_SAATLERI, KW_HOURS, KW_ILETISIM, KW_CONTACT>>

should_use_tools(user_message) ==
    LET user_lower == Lower(user_message) IN
    \E k \in 1..Len(tool_keywords) : Contains(user_lower, tool_keywords[k])

---------------------------------------------------------------------------
(* _build_messages *)

\* a reply is either text or the lines that "\n".join puts together
Text(chars) ==
    <<"text", chars>>

Joined(lines) ==
    <<"lines", lines>>

Message(role, content) ==
    [role |-> role, content |-> content]

\* self.system_prompt with the current date filled in
SystemMessage ==
    Message("system", Text(<<"system_prompt">>))

HistoryWindow ==
    10

\* a prompt that carries the whole history
WholeHistory(s, n) ==
    s

\* s[-n:]
LastN(s, n) ==
    IF Len(s) <= n THEN s ELSE Slice(s, Len(s) - n + 1, Len(s))

\* a prompt that does not append the current message after the window
WindowOnly(history, user_message) ==
    <<SystemMessage>> \o LastN(history, HistoryWindow)

build_messages(history, user_message) ==
    <<SystemMessage>> \o LastN(history, HistoryWindow)
        \o <<Message("user", Text(user_message))>>

---------------------------------------------------------------------------
(* _process_tool_results *)

ShownSlots ==
    10

\* s[:n]
FirstN(s, n) ==
    IF Len(s) <= n THEN s ELSE Slice(s, 1, n)

\* result.get(key, default) on a dict
Get(d, key, default) ==
    IF key \in DOMAIN d[2] THEN d[2][key] ELSE default

ServicesLines(result) ==
    LET services == Get(result, "services", <<>>) IN
    IF services # <<>>
    THEN <<<<"Here are our services and prices:">>>>
         \o [k \in 1..Len(services) |->
                <<"{name} - ${price} ({duration_minutes} min)",
                  services[k].name, services[k].price,
                  services[k].duration_minutes>>]
         \o <<<<"\nWould you like to book an appointment?">>>>
    ELSE <<<<"Sorry, there was an issue retrieving our services.">>>>

AvailabilityLines(result) ==
    IF Get(result, "available", FALSE)
    THEN LET slots == Get(result, "available_slots", <<>>) IN
         <<<<"Here are our available times for {date} for a {duration}-minute appointment:",
             Get(result, "date", Str(<<>>)),
             Get(result, "duration_minutes", PyInt(0))>>>>
         \o [k \in 1..Len(FirstN(slots, ShownSlots)) |-> <<"- {slot}", slots[k]>>]
         \o (IF Len(slots) > ShownSlots
             THEN <<<<"... and {n} more times", Len(slots) - ShownSlots>>>>
             ELSE <<>>)
         \o <<<<"\nWhich time works best for you?">>>>
    ELSE <<<<"Sorry, we don't have any available slots for {date}.",
             Get(result, "date", Str(<<>>))>>,
           <<"Would you like to try a different date?">>>>

\* ', '.join(services) raises TypeError unless services is iterable
BookingLines(result) ==
    LET appointment == Get(result, "appointment", <<>>) IN
    IF ~IsStr(appointment.appointment.services)
    THEN Raise("TypeError", "can only join an iterable")
    ELSE Return(
        <<<<"Your appointment has been successfully booked!">>,
          <<"Date: {date}", appointment.appointment.date>>,
          <<"Time: {time}", appointment.appointment.time>>,
          <<"Services: {', '.join(services)}", appointment.appointment.services>>,
          <<"Total: ${total_price}", appointment.appointment.total_price>>,
          <<"Duration: {duration_minutes} minutes",
            appointment.appointment.duration_minutes>>,
          <<"Appointment ID: {appointment_id}", Get(result, "appointment_id", Str(<<>>))>>,
          <<"\nI've sent a confirmation email to your address. Is there anything else I can help you with?">>>>)

BusinessInfoLines(result) ==
    IF "working_hours" \in DOMAIN result[2]
    THEN <<<<"Our business hours: {working_hours}", result[2].working_hours>>>>
    ELSE IF "phone" \in DOMAIN result[2]
    THEN <<<<"Contact us: {phone}", result[2].phone>>>>
    ELSE IF "address" \in DOMAIN result[2]
    THEN <<<<"Address: {address}", result[2].address>>>>
    ELSE <<<<"Sorry, there was an issue retrieving our business information.">>>>

\* the lines one tool result contributes, or the exception its rendering raises
ResultLines(tool_result) ==
    IF "success" \notin DOMAIN tool_result
    THEN Raise("KeyError", "'success'")
    ELSE IF ~tool_result.success
    THEN Return(<<<<"Error with {tool_name}: {error}",
                    tool_result.tool_name, tool_result.error>>>>)
    ELSE IF tool_result.tool_name = GET_SERVICES
    THEN Return(ServicesLines(tool_result.result))
    ELSE IF tool_result.tool_name = CHECK_AVAILABILITY
    THEN Return(AvailabilityLines(tool_result.result))
    ELSE IF tool_result.tool_name = BOOK_APPOINTMENT
    THEN IF Get(tool_result.result, "success", FALSE)
         THEN BookingLines(tool_result.result)
         ELSE Return(<<<<"Sorry, there was an error creating your appointment. Please try again.">>>>)
    ELSE IF tool_result.tool_name = GET_BUSINESS_INFO
    THEN Return(BusinessInfoLines(tool_result.result))
    ELSE Return(<<>>)

\* response_parts after the results from position i on, or the first exception
RECURSIVE ResponseParts(_, _)
ResponseParts(tool_results, i) ==
    IF i > Len(tool_results) THEN Return(<<>>)
    ELSE LET lines == ResultLines(tool_results[i]) IN
         IF lines.raised THEN lines
         ELSE LET rest == ResponseParts(tool_results, i + 1) IN
              IF rest.raised THEN rest ELSE Return(lines.value \o rest.value)

process_tool_results(tool_results) ==
    IF tool_results = <<>>
    THEN Return(Joined(<<<<"I didn't find any specific information to help you with.">>>>))
    ELSE LET parts == ResponseParts(tool_results, 1) IN
         IF parts.raised THEN parts ELSE Return(Joined(parts.value))

---------------------------------------------------------------------------
(* The documents the data files hold when the shop is provisioned *)

BusinessInfoDoc ==
    Dict([name |-> "The Greatest Barber Shop",
          address |-> "123 Sunset Boulevard, West Hollywood, CA 90069",
          phone |-> "+1 (323) 555-0123",
          working_hours |-> "09:00-19:00",
          hours |-> "Mon-Fri 09:00-19:00, Sat 09:00-18:00",
          timezone |-> "America/Los_Angeles"])

ServicesDoc ==
    Dict([services |->
            <<[name |-> "Haircut", price |-> 45, duration_minutes |-> 30],
              [name |-> "Beard Trim", price |-> 25, duration_minutes |-> 15]>>])

\* two dates; the second has no booked_slots key yet
CalendarDoc ==
    Dict((DATE_0602 :> [available_slots |-> <<Str(T0900), Str(T0930), Str(T1000)>>,
                        booked_slots |-> <<Str(T1000)>>])
         @@ (DATE_0603 :> [available_slots |-> <<Str(T0900), Str(T0930), Str(T1000)>>]))

\* a provisioned shop before its first booking
Provisioned ==
    (BUSINESS_INFO_JSON :> Json(BusinessInfoDoc))
    @@ (SERVICES_JSON :> Json(ServicesDoc))
    @@ (CALENDAR_JSON :> Json(CalendarDoc))
    @@ (APPOINTMENTS_JSON :> Absent)

\* no data file exists
Unprovisioned ==
    [p \in Paths |-> Absent]

InitialFiles ==
    {Provisioned, Unprovisioned}

---------------------------------------------------------------------------
(* What the environment supplies: uuid4 and the clock; users and the model *)

Suffixes ==
    {SUFFIX_A1B, SUFFIX_7F3}

\* datetime.now().isoformat(): copied into created_at and never read back
Timestamps ==
    {"2025-06-01T10:00:00"}

Envs ==
    [suffix : Suffixes, now : Timestamps]

\* Sure!
REPLY_PLAIN ==
    <<"S","u","r","e","!">>
\* TOOL: get_services()
REPLY_SERVICES ==
    <<"T","O","O","L",":"," ","g","e","t","_","s","e","r","v","i","c","e","s","(",")">>
\* TOOL: deleteAppointment(7)
REPLY_UNKNOWN ==
    <<"T","O","O","L",":"," ","d","e","l","e","t","e","A","p","p","o","i","n","t","m","e","n","t","(","7",")">>
\* [get_business_info(hours)]
REPLY_HOURS ==
    <<"[","g","e","t","_","b","u","s","i","n","e","s","s","_","i","n","f","o","(","h","o","u","r","s",")","]">>
\* [check_availability("2025-06-02", 60)]
REPLY_CHECK ==
    <<"[","c","h","e","c","k","_","a","v","a","i","l","a","b","i","l","i","t","y","(","\"","2","0","2","5","-","0","6","-","0","2","\"",","," ","6","0",")","]">>
\* TOOL: book_appointment(Jane,555,j@x.com,2025-06-02,09:00,Haircut,45,30)
REPLY_BOOK ==
    <<"T","O","O","L",":"," ","b","o","o","k","_","a","p","p","o","i","n","t","m","e","n","t","(","J","a","n","e",",","5","5","5",",","j","@","x",".","c","o","m",",","2","0","2","5","-","0","6","-","0","2",",","0","9",":","0","0",",","H","a","i","r","c","u","t",",","4","5",",","3","0",")">>
\* [get_services()] TOOL: get_business_info(hours)
REPLY_TWO ==
    <<"[","g","e","t","_","s","e","r","v","i","c","e","s","(",")","]"," ","T","O","O","L",":"," ","g","e","t","_","b","u","s","i","n","e","s","s","_","i","n","f","o","(","h","o","u","r","s",")">>
\* Hello
MSG_HELLO ==
    <<"H","e","l","l","o">>
\* Book it
MSG_BOOK ==
    <<"B","o","o","k"," ","i","t">>
\* sometimes
MSG_SOMETIMES ==
    <<"s","o","m","e","t","i","m","e","s">>
\* the reply _call_openai returns when the API call fails
REPLY_APOLOGY ==
    <<"Sorry, I'm having trouble connecting to the AI service. Error: ", "{e}">>

UserMessages ==
    {MSG_HELLO, MSG_BOOK, MSG_SOMETIMES}

Replies ==
    {REPLY_PLAIN, REPLY_SERVICES, REPLY_UNKNOWN, REPLY_HOURS, REPLY_CHECK,
     REPLY_BOOK, REPLY_TWO, REPLY_APOLOGY}

\* _should_use_tools and _extract_tool_calls are functions of their text
\* alone: their values on the texts of the model, computed once
UsesTools ==
    [user_message \in UserMessages |-> should_use_tools(user_message)]

ExtractedCalls ==
    [ai_response \in Replies |-> extract_tool_calls(ai_response)]

\* no environment value: the call at this position does not consult it
NoEnv ==
    [suffix |-> <<>>, now |-> ""]

\* uuid4 and the clock are consulted by book_appointment alone
EnvChoices(tool_calls) ==
    {es \in [1..Len(tool_calls) -> Envs \cup {NoEnv}] :
        \A i \in 1..Len(tool_calls) :
            (es[i] = NoEnv) <=> (tool_calls[i].tool_name # BOOK_APPOINTMENT)}

\* the records of the appointment list on disk
Appointments(fs) ==
    LET doc == load_json_file(fs, APPOINTMENTS_JSON) IN
    IF IsList(doc) THEN doc[2] ELSE <<>>

\* bounds of the exploration
MaxHistory ==
    4

MaxAppointments ==
    2

\* the processes that call book_appointment concurrently
Procs ==
    {"p1", "p2"}

NoFrame ==
    [calls |-> 0]

MaxConcCalls ==
    2

\* the longest history of the long conversation: longer than the window
MaxLongHistory ==
    12

---------------------------------------------------------------------------
(* chat, reset_conversation *)

\* tool_results.append(result), in front of the results of the later calls
Prepend(result, rest) ==
    [fs |-> rest.fs, results |-> <<result>> \o rest.results]

\* the loop over tool_calls from position i on: the files after the calls
\* and the result envelopes in call order; es[i] is what the environment
\* (uuid4, the clock) hands to the i-th call
RECURSIVE ExecuteFrom(_, _, _, _)
ExecuteNext(one, tool_calls, es, i) ==
    Prepend(one.out, ExecuteFrom(one.fs, tool_calls, es, i + 1))

ExecuteFrom(fs, tool_calls, es, i) ==
    IF i > Len(tool_calls) THEN [fs |-> fs, results |-> <<>>]
    ELSE ExecuteNext(execute_tool(fs, tool_calls[i].tool_name, tool_calls[i].args, es[i]), tool_calls, es, i)

\* the end of a turn that ran tools: the reply joins the history unless
\* formatting raised
ToolTurn(history1, messages, run, final_response) ==
    [fs |-> run.fs,
     history |-> IF final_response.raised THEN history1
                 ELSE Append(history1, Message("assistant", final_response.value)),
     messages |-> messages,
     tool_results |-> run.results,
     out |-> final_response]

RunTools(history1, messages, run) ==
    ToolTurn(history1, messages, run, process_tool_results(run.results))

\* the turn after the user message has joined the history
Turn(fs, history1, user_message, ai_response, tool_calls, es) ==
    IF tool_calls # <<>>
    THEN RunTools(history1, build_messages(history1, user_message),
                  ExecuteFrom(fs, tool_calls, es, 1))
    ELSE [fs |-> fs,
          history |-> Append(history1, Message("assistant", Text(ai_response))),
          messages |-> build_messages(history1, user_message),
          tool_results |-> <<>>,
          out |-> Return(Text(ai_response))]

\* the invocations a turn runs: none unless the user message triggers tools
ToolCalls(user_message, ai_response) ==
    IF UsesTools[user_message] THEN ExtractedCalls[ai_response] ELSE <<>>

\* one turn: the files and the history it leaves, the prompt it built, the
\* envelopes of the tools it ran, and the reply it returns or the exception
\* it raises
chat(fs, history, user_message, ai_response, es) ==
    Turn(fs, Append(history, Message("user", Text(user_message))),
         user_message, ai_response, ToolCalls(user_message, ai_response), es)

---------------------------------------------------------------------------
(* The agent: one session calling chat and reset_conversation *)

Init ==
    /\ files \in InitialFiles
    /\ conversation_history = <<>>
    /\ current_appointment_context = <<>>
    /\ ret = [op |-> "init"]
    /\ pc = [p \in Procs |-> "idle"]
    /\ frame = [p \in Procs |-> NoFrame]

Chat ==
    \E user_message \in UserMessages, ai_response \in Replies :
      \E es \in EnvChoices(ToolCalls(user_message, ai_response)) :
      \E turn \in {chat(files, conversation_history, user_message, ai_response, es)} :
        /\ Len(conversation_history) + 2 <= MaxHistory
        /\ Len(Appointments(turn.fs)) <= MaxAppointments
        /\ files' = turn.fs
        /\ conversation_history' = turn.history
        /\ ret' = [op |-> "chat", user_message |-> user_message,
                   ai_response |-> ai_response, messages |-> turn.messages,
                   tool_results |-> turn.tool_results, out |-> turn.out]
        /\ UNCHANGED <<current_appointment_context, pc, frame>>

\* a reset that forgets to clear the history
ResetKeepsHistory ==
    /\ conversation_history' = conversation_history
    /\ current_appointment_context' = <<>>
    /\ ret' = [op |-> "reset_conversation", cleared |-> Len(conversation_history)]
    /\ UNCHANGED <<files, pc, frame>>

ResetConversation ==
    /\ conversation_history' = <<>>
    /\ current_appointment_context' = <<>>
    /\ ret' = [op |-> "reset_conversation", cleared |-> Len(conversation_history)]
    /\ UNCHANGED <<files, pc, frame>>

Next ==
    \/ Chat
    \/ ResetConversation

Spec ==
    Init /\ [][Next]_vars
---------------------------------------------------------------------------
(* The domain operations and the executor, called one after the other *)

InfoTypeArgs ==
    {Str(HOURS), Str(CONTACT), Str(ADDRESS), Str(ALL), Str(JANE)}

DateArgs ==
    {Str(DATE_0602), Str(DATE_0603), Str(DATE_2099)}

TimeArgs ==
    {Str(T0900), Str(T2300)}

DurationArgs ==
    {PyInt(30), PyInt(31), PyInt(60), PyInt(61)}

\* the invocations the executor is given: those of the model replies, one
\* with an argument too many and a booking whose date is a number
ExecCalls ==
    <<ExtractedCalls[REPLY_SERVICES][1], ExtractedCalls[REPLY_UNKNOWN][1],
      ExtractedCalls[REPLY_HOURS][1], ExtractedCalls[REPLY_CHECK][1],
      ExtractedCalls[REPLY_BOOK][1],
      [tool_name |-> GET_SERVICES, args |-> <<PyInt(1)>>],
      [tool_name |-> BOOK_APPOINTMENT,
       args |-> <<Str(JANE), Str(PHONE), Str(EMAIL), PyInt(20250602),
                  Str(T0900), Str(HAIRCUT), PyInt(45), PyInt(30)>>]>>

CallGetBusinessInfo ==
    \E info_type \in InfoTypeArgs :
        /\ ret' = [op |-> "get_business_info", args |-> <<info_type>>,
                   out |-> get_business_info(files, info_type)]
        /\ UNCHANGED <<files, conversation_history, current_appointment_context, pc, frame>>

CallGetServices ==
    /\ ret' = [op |-> "get_services", args |-> <<>>, out |-> get_services(files)]
    /\ UNCHANGED <<files, conversation_history, current_appointment_context, pc, frame>>

CallCheckAvailability ==
    \E date \in DateArgs, duration_minutes \in DurationArgs :
        /\ ret' = [op |-> "check_availability", args |-> <<date, duration_minutes>>,
                   out |-> check_availability(files, date, duration_minutes)]
        /\ UNCHANGED <<files, conversation_history, current_appointment_context, pc, frame>>

CallBookAppointment ==
    \E date \in DateArgs, time \in TimeArgs, e \in Envs :
      \E call \in {book_appointment(files, Str(JANE), Str(PHONE), Str(EMAIL), date, time, Str(HAIRCUT), PyInt(45), PyInt(30), e)} :
        /\ Len(Appointments(files)) < MaxAppointments
        /\ files' = call.fs
        /\ ret' = [op |-> "book_appointment", args |-> <<date, time>>,
                   out |-> call.out]
        /\ UNCHANGED <<conversation_history, current_appointment_context, pc, frame>>

CallExecuteTool ==
    \E k \in 1..Len(ExecCalls) :
      \E es \in EnvChoices(<<ExecCalls[k]>>) :
      \E call \in {execute_tool(files, ExecCalls[k].tool_name, ExecCalls[k].args, es[1])} :
        /\ Len(Appointments(call.fs)) <= MaxAppointments
        /\ files' = call.fs
        /\ ret' = [op |-> "execute_tool", tool_name |-> ExecCalls[k].tool_name,
                   args |-> ExecCalls[k].args, out |-> Return(call.out)]
        /\ UNCHANGED <<conversation_history, current_appointment_context, pc, frame>>

ToolsNext ==
    \/ CallGetBusinessInfo
    \/ CallGetServices
    \/ CallCheckAvailability
    \/ CallBookAppointment
    \/ CallExecuteTool

SpecTools ==
    Init /\ [][ToolsNext]_vars
---------------------------------------------------------------------------
(* book_appointment called by concurrent processes: every file access is a *)
(* step of its own, and the steps of the processes interleave              *)

Calls ==
    frame["p1"].calls + frame["p2"].calls

\* lines 153-173: the id and the record are built before any file is read
Start(p) ==
    \E date \in DateArgs, time \in TimeArgs, e \in Envs :
        /\ pc[p] = "idle"
        /\ Calls < MaxConcCalls
        /\ frame' = [frame EXCEPT ![p] =
               [calls |-> frame[p].calls + 1, date |-> date, time |-> time,
                appointment |-> NewAppointment(Str(JANE), Str(PHONE), Str(EMAIL), date, time, Str(HAIRCUT), PyInt(45), PyInt(30), e)]]
        /\ pc' = [pc EXCEPT ![p] = "load_appointments"]
        /\ UNCHANGED <<files, conversation_history, current_appointment_context, ret>>

\* lines 176-181
LoadAppointments(p) ==
    /\ pc[p] = "load_appointments"
    /\ frame' = [frame EXCEPT ![p] = [k \in DOMAIN frame[p] \cup {"appointments"} |->
           IF k = "appointments"
           THEN WithAppointment(load_json_file(files, APPOINTMENTS_JSON), frame[p].appointment)
           ELSE frame[p][k]]]
    /\ pc' = [pc EXCEPT ![p] = "open_appointments"]
    /\ UNCHANGED <<files, conversation_history, current_appointment_context, ret>>

\* the processes that have file_path open for writing, other than p
OtherWriters(p, at) ==
    {q \in Procs \ {p} : pc[q] = at}

\* open(file_path, 'w') of save_json_file; p.clean: no other process has
\* written the file since p opened it
OpenFile(p, from, to, file_path) ==
    /\ pc[p] = from
    /\ files' = open_w(files, file_path)
    /\ frame' = [frame EXCEPT ![p] = [k \in DOMAIN frame[p] \cup {"clean"} |->
           IF k = "clean" THEN TRUE ELSE frame[p][k]]]
    /\ pc' = [pc EXCEPT ![p] = to]
    /\ UNCHANGED <<conversation_history, current_appointment_context, ret>>

\* json.dump and close of save_json_file: the document is on disk, unless
\* another process wrote the file since p opened it; then the two writers'
\* bytes overlap, and the file holds p's document or no document at all
DumpFile(p, from, to, file_path, data) ==
    /\ pc[p] = from
    /\ \/ files' = dump(files, file_path, data)
       \/ ~frame[p].clean /\ files' = open_w(files, file_path)
    /\ frame' = [q \in Procs |->
           IF q \in OtherWriters(p, from)
           THEN [frame[q] EXCEPT !.clean = FALSE]
           ELSE frame[q]]
    /\ pc' = [pc EXCEPT ![p] = to]
    /\ UNCHANGED <<conversation_history, current_appointment_context, ret>>

\* line 184
OpenAppointments(p) ==
    OpenFile(p, "open_appointments", "dump_appointments", APPOINTMENTS_JSON)

DumpAppointments(p) ==
    DumpFile(p, "dump_appointments", "load_calendar", APPOINTMENTS_JSON, frame[p].appointments)

\* lines 187-191
LoadCalendar(p) ==
    /\ pc[p] = "load_calendar"
    /\ \E calendar_data \in {load_json_file(files, CALENDAR_JSON)} :
        IF KeyIn(frame[p].date, calendar_data)
        THEN /\ frame' = [frame EXCEPT ![p] = [k \in DOMAIN frame[p] \cup {"calendar_data"} |->
                    IF k = "calendar_data"
                    THEN WithBookedSlot(calendar_data, frame[p].date, frame[p].time)
                    ELSE frame[p][k]]]
             /\ pc' = [pc EXCEPT ![p] = "open_calendar"]
        ELSE /\ frame' = frame
             /\ pc' = [pc EXCEPT ![p] = "return"]
    /\ UNCHANGED <<files, conversation_history, current_appointment_context, ret>>

\* line 192
OpenCalendar(p) ==
    OpenFile(p, "open_calendar", "dump_calendar", CALENDAR_JSON)

DumpCalendar(p) ==
    DumpFile(p, "dump_calendar", "return", CALENDAR_JSON, frame[p].calendar_data)

\* lines 194-199; the frame keeps the call's arguments and its result
ReturnBooking(p) ==
    /\ pc[p] = "return"
    /\ frame' = [frame EXCEPT ![p] =
           [calls |-> frame[p].calls, date |-> frame[p].date, time |-> frame[p].time,
            appointment |-> frame[p].appointment,
            out |-> Return(BookingResult(frame[p].appointment, frame[p].date, frame[p].time))]]
    /\ pc' = [pc EXCEPT ![p] = "idle"]
    /\ ret' = [op |-> "book_appointment", proc |-> p,
               args |-> <<frame[p].date, frame[p].time>>]
    /\ UNCHANGED <<files, conversation_history, current_appointment_context>>

ConcNext ==
    \E p \in Procs :
        \/ Start(p)
        \/ LoadAppointments(p)
        \/ OpenAppointments(p)
        \/ DumpAppointments(p)
        \/ LoadCalendar(p)
        \/ OpenCalendar(p)
        \/ DumpCalendar(p)
        \/ ReturnBooking(p)

SpecConc ==
    Init /\ [][ConcNext]_vars
---------------------------------------------------------------------------
(* A long conversation: the history outgrows the prompt window *)

LongMessages ==
    {MSG_HELLO, MSG_BOOK}

LongReplies ==
    {REPLY_PLAIN, REPLY_UNKNOWN}

LongChat ==
    \E user_message \in LongMessages, ai_response \in LongReplies :
      \E es \in EnvChoices(ToolCalls(user_message, ai_response)) :
      \E turn \in {chat(files, conversation_history, user_message, ai_response, es)} :
        /\ Len(conversation_history) + 2 <= MaxLongHistory
        /\ files' = turn.fs
        /\ conversation_history' = turn.history
        /\ ret' = [op |-> "chat", user_message |-> user_message,
                   ai_response |-> ai_response, messages |-> turn.messages,
                   tool_results |-> turn.tool_results, out |-> turn.out]
        /\ UNCHANGED <<current_appointment_context, pc, frame>>

LongNext ==
    \/ LongChat
    \/ ResetConversation

SpecLong ==
    Init /\ [][LongNext]_vars
---------------------------------------------------------------------------
(* _extract_tool_calls on replies composed of pieces of text *)

\* pieces of a model reply: invocations in the prefixed and in the bracketed
\* form, and prose
Fragments ==
    <<
      \* TOOL: bookAppointment("Jane Doe","555-1111","jane@x.com","2025-06-02","10:00",["Haircut"],45,30)
      <<"T","O","O","L",":"," ","b","o","o","k","A","p","p","o","i","n","t","m","e","n","t","(","\"","J","a","n","e"," ","D","o","e","\"",",","\"","5","5","5","-","1","1","1","1","\"",",","\"","j","a","n","e","@","x",".","c","o","m","\"",",","\"","2","0","2","5","-","0","6","-","0","2","\"",",","\"","1","0",":","0","0","\"",",","[","\"","H","a","i","r","c","u","t","\"","]",",","4","5",",","3","0",")">>,
      \* [check_availability( '2025-06-02' , 60)]
      <<"[","c","h","e","c","k","_","a","v","a","i","l","a","b","i","l","i","t","y","("," ","'","2","0","2","5","-","0","6","-","0","2","'"," ",","," ","6","0",")","]">>,
      \* TOOL:get_services()
      <<"T","O","O","L",":","g","e","t","_","s","e","r","v","i","c","e","s","(",")">>,
      \* [quote(4.50, -3, "7")]
      <<"[","q","u","o","t","e","(","4",".","5","0",","," ","-","3",","," ","\"","7","\"",")","]">>,
      \*  ok (see [notes]), then: 
      <<" ","o","k"," ","(","s","e","e"," ","[","n","o","t","e","s","]",")",","," ","t","h","e","n",":"," ">>
    >>

\* the longest reply, in pieces
MaxPieces ==
    3

\* a reply as the positions in Fragments of its pieces
Compositions ==
    UNION {[1..n -> 1..Len(Fragments)] : n \in 1..MaxPieces}

RECURSIVE Compose(_, _)
Compose(pieces, i) ==
    IF i > Len(pieces) THEN <<>>
    ELSE Fragments[pieces[i]] \o Compose(pieces, i + 1)

\* _extract_tool_calls is a function of the reply alone: its value on every
\* composed reply, computed once
ExtractedFrom ==
    [pieces \in Compositions |-> extract_tool_calls(Compose(pieces, 1))] @@ <<>>

CallExtractToolCalls ==
    \E pieces \in Compositions :
        /\ ret' = [op |-> "extract_tool_calls", pieces |-> pieces,
                   response |-> Compose(pieces, 1),
                   out |-> Return(ExtractedFrom[pieces])]
        /\ UNCHANGED <<files, conversation_history, current_appointment_context, pc, frame>>

ExtractNext ==
    CallExtractToolCalls

SpecExtract ==
    Init /\ [][ExtractNext]_vars
---------------------------------------------------------------------------
(* book_appointment when reading or writing a store file fails *)

\* where an OSError other than FileNotFoundError strikes (a file that may
\* not be read or written, a full disk): load_json_file catches only
\* FileNotFoundError and JSONDecodeError, save_json_file catches nothing
Faults ==
    {"none", "load_appointments", "open_appointments", "dump_appointments",
     "load_calendar", "open_calendar", "dump_calendar"}

\* lines 187-192 after appointments.json is saved: the calendar is read,
\* and written if the date is one of its keys
CalendarStep(fs1, date, time, fault, returned) ==
    IF fault = "load_calendar"
    THEN [fs |-> fs1, out |-> Raise("OSError", fault)]
    ELSE IF ~KeyIn(date, load_json_file(fs1, CALENDAR_JSON))
    THEN [fs |-> fs1, out |-> returned]
    ELSE IF fault = "open_calendar"
    THEN [fs |-> fs1, out |-> Raise("OSError", fault)]
    ELSE IF fault = "dump_calendar"
    THEN [fs |-> open_w(fs1, CALENDAR_JSON), out |-> Raise("OSError", fault)]
    ELSE [fs |-> MarkBooked(fs1, date, time), out |-> returned]

\* lines 176-199 for the record built at lines 153-173
AppointmentsStep(fs, appointment, date, time, fault) ==
    IF fault \in {"load_appointments", "open_appointments"}
    THEN [fs |-> fs, out |-> Raise("OSError", fault)]
    ELSE IF fault = "dump_appointments"
    THEN [fs |-> open_w(fs, APPOINTMENTS_JSON), out |-> Raise("OSError", fault)]
    ELSE CalendarStep(save_json_file(fs, APPOINTMENTS_JSON,
                          WithAppointment(load_json_file(fs, APPOINTMENTS_JSON), appointment)),
                      date, time, fault,
                      Return(BookingResult(appointment, date, time)))

\* tool_function(*args) for book_appointment, the fault striking where it says
BookWithFault(fs, args, e, fault) ==
    IF Len(args) # Arity(BOOK_APPOINTMENT)
    THEN [fs |-> fs, out |-> Raise("TypeError", "wrong number of positional arguments")]
    ELSE IF ~IsStr(args[4])
    THEN [fs |-> fs, out |-> Raise("AttributeError", "object has no attribute 'replace'")]
    ELSE AppointmentsStep(fs,
             NewAppointment(args[1], args[2], args[3], args[4], args[5], args[6], args[7], args[8], e),
             args[4], args[5], fault)

\* lines 153-163 of _execute_tool: the envelope of a call's outcome
Envelope(call, tool_name) ==
    [fs |-> call.fs,
     out |-> IF call.out.raised
             THEN [success |-> FALSE, error |-> call.out.msg, tool_name |-> tool_name]
             ELSE [success |-> TRUE, result |-> call.out.value, tool_name |-> tool_name]]

\* argument lists of book_appointment: dates in and out of the calendar, a
\* date that is a number, and a list one argument short
BookingArgs ==
    {<<Str(JANE), Str(PHONE), Str(EMAIL), date, Str(T0900), Str(HAIRCUT), PyInt(45), PyInt(30)>> :
        date \in {Str(DATE_0602), Str(DATE_2099), PyInt(20250602)}}
    \cup {<<Str(JANE), Str(PHONE), Str(EMAIL), Str(DATE_0602), Str(T0900), Str(HAIRCUT), PyInt(45)>>}

\* how many times are booked in the calendar last written
RECURSIVE SlotsBooked(_, _)
SlotsBooked(calendar, dates) ==
    IF dates = {} THEN 0
    ELSE Len(GetList(calendar[CHOOSE d \in dates : TRUE], "booked_slots"))
         + SlotsBooked(calendar, dates \ {CHOOSE d \in dates : TRUE})

CallExecuteBooking ==
    \E args \in BookingArgs, e \in Envs, fault \in Faults :
      \E call \in {Envelope(BookWithFault(files, args, e, fault), BOOK_APPOINTMENT)} :
        /\ Len(Appointments(files)) < MaxAppointments
        /\ SlotsBooked(LastDocument(files, CALENDAR_JSON)[2],
                       DOMAIN LastDocument(files, CALENDAR_JSON)[2]) <= MaxAppointments
        /\ files' = call.fs
        /\ ret' = [op |-> "execute_tool", tool_name |-> BOOK_APPOINTMENT,
                   args |-> args, fault |-> fault, out |-> Return(call.out)]
        /\ UNCHANGED <<conversation_history, current_appointment_context, pc, frame>>

FaultyNext ==
    CallExecuteBooking

SpecFaulty ==
    Init /\ [][FaultyNext]_vars
---------------------------------------------------------------------------
(* Properties *)

\* the inline error line of the formatter
ErrorLine(tool_name, error) ==
    <<"Error with {tool_name}: {error}", tool_name, error>>

HasLine(lines, line) ==
    \E i \in DOMAIN lines :
        /\ Len(lines[i]) = Len(line)
        /\ lines[i][1] = line[1]
        /\ lines[i] = line

\* what the executor is to report for the i-th invocation of the last turn,
\* when that invocation must fail
ExpectedError(tool_name, tool_result) ==
    IF tool_name \notin AVAILABLE_TOOLS
    THEN <<"Unknown tool: ", tool_name>>
    ELSE tool_result.error

MustFail(tool_name, tool_result) ==
    \/ tool_name \notin AVAILABLE_TOOLS
    \/ "success" \in DOMAIN tool_result /\ ~tool_result.success

\* C1: chat returns a text reply and never raises; when the model reply
\* embeds an invocation of an unregistered tool, or of an operation that
\* raises, the turn completes and the reply has an error line naming that
\* tool and the error message.
C1_ChatNeverRaises ==
    ret.op = "chat" =>
        /\ ~ret.out.raised
        /\ ret.out.value[1] \in {"text", "lines"}
        /\ \A i \in DOMAIN ret.tool_results :
             MustFail(ToolCalls(ret.user_message, ret.ai_response)[i].tool_name,
                      ret.tool_results[i])
             => HasLine(ret.out.value[2],
                    ErrorLine(ToolCalls(ret.user_message, ret.ai_response)[i].tool_name,
                        ExpectedError(ToolCalls(ret.user_message, ret.ai_response)[i].tool_name,
                                      ret.tool_results[i])))

\* C7: the executor returns, without raising, an envelope with a boolean
\* success field: success=false and error "Unknown tool: <name>" for a name
\* not in the registry; success=false with the error and the tool name for a
\* registered operation that raises; success=true with the result and the
\* tool name otherwise.
C7_EnvelopeHasSuccess ==
    ret.op = "execute_tool" =>
        /\ ~ret.out.raised
        /\ "success" \in DOMAIN ret.out.value
        /\ ret.out.value.success \in BOOLEAN
        /\ ret.tool_name \notin AVAILABLE_TOOLS =>
             /\ ~ret.out.value.success
             /\ ret.out.value.error = <<"Unknown tool: ", ret.tool_name>>
        /\ ret.tool_name \in AVAILABLE_TOOLS =>
             /\ ret.out.value.tool_name = ret.tool_name
             /\ IF ret.out.value.success
                THEN "result" \in DOMAIN ret.out.value
                ELSE "error" \in DOMAIN ret.out.value

\* C8: after any sequence of chat and reset_conversation calls the history
\* has even length and alternates user, assistant; each chat call has added
\* the user message followed by the turn's final reply; no user entry is
\* left in the history without its reply.
C8_HistoryAlternates ==
    /\ Len(conversation_history) % 2 = 0
    /\ \A i \in DOMAIN conversation_history :
         conversation_history[i].role = IF i % 2 = 1 THEN "user" ELSE "assistant"
    /\ ret.op = "chat" =>
         /\ Len(conversation_history) >= 2
         /\ ~ret.out.raised
         /\ conversation_history[Len(conversation_history) - 1]
                = Message("user", Text(ret.user_message))
         /\ conversation_history[Len(conversation_history)]
                = Message("assistant", ret.out.value)

\* C9: reset_conversation, called in any state, leaves the history and the
\* appointment context empty, and the prompt of the chat turn that follows
\* it holds, besides the system message, only the new user message (once
\* from the history, once appended): no turn from before the reset.
C9_ResetClears ==
    [][/\ ret'.op = "reset_conversation" =>
            /\ conversation_history' = <<>>
            /\ current_appointment_context' = <<>>
       /\ (ret.op = "reset_conversation" /\ ret'.op = "chat") =>
            ret'.messages = <<SystemMessage,
                              Message("user", Text(ret'.user_message)),
                              Message("user", Text(ret'.user_message))>>]_vars

\* a reset has just cleared a history that held turns
C9_Witness ==
    /\ ret.op = "reset_conversation"
    /\ ret.cleared >= 2
    /\ conversation_history = <<>>
\* the slot list check_availability answers with
OfferedSlots(fs, date, duration_minutes) ==
    check_availability(fs, date, duration_minutes).value[2].available_slots

\* C3: after a book_appointment(date, time, ...) that returns,
\* check_availability(date, d) on the files it left returns, for every
\* duration d, a slot list that does not contain the booked time.
C3_BookedTimeNotOffered ==
    (ret.op = "book_appointment" /\ ~ret.out.raised) =>
        \A d \in DurationArgs :
            /\ ~check_availability(files, ret.args[1], d).raised
            /\ ~InList(ret.args[2], OfferedSlots(files, ret.args[1], d))

\* a listed slot that nobody had booked has just been booked, and the date
\* still has another slot to offer
C3_Witness ==
    /\ ret.op = "book_appointment"
    /\ ~ret.out.raised
    /\ ret.args = <<Str(DATE_0602), Str(T0900)>>
    /\ files[CALENDAR_JSON].kind = "json"
    /\ InList(Str(T0900), files[CALENDAR_JSON].doc[2][DATE_0602].available_slots)
    /\ Cardinality({i \in DOMAIN files[CALENDAR_JSON].doc[2][DATE_0602].booked_slots :
                      files[CALENDAR_JSON].doc[2][DATE_0602].booked_slots[i] = Str(T0900)}) = 1
    /\ OfferedSlots(files, Str(DATE_0602), PyInt(30)) = <<Str(T0930)>>

\* C4: in every reachable state, for every date of the calendar, every time
\* in booked_slots is also in that date's available_slots.
C4_BookedWithinAvailable ==
    files[CALENDAR_JSON].kind = "json" =>
        \A date \in DOMAIN files[CALENDAR_JSON].doc[2] :
            \A i \in DOMAIN GetList(files[CALENDAR_JSON].doc[2][date], "booked_slots") :
                InList(GetList(files[CALENDAR_JSON].doc[2][date], "booked_slots")[i],
                       GetList(files[CALENDAR_JSON].doc[2][date], "available_slots"))

\* C5: any two distinct records of the persisted appointment list have
\* different ids.
C5_DistinctIds ==
    \A i, j \in DOMAIN Appointments(files) :
        i # j => Appointments(files)[i].id # Appointments(files)[j].id

\* C10: with its record file absent, get_business_info (hours, contact,
\* address, all) and get_services return an empty mapping,
\* check_availability returns available:false, and book_appointment
\* returns; none of them raises.
C10_AbsentFileIsNoData ==
    /\ (/\ ret.op = "get_business_info"
        /\ files[BUSINESS_INFO_JSON] = Absent
        /\ ret.args[1] \in {Str(HOURS), Str(CONTACT), Str(ADDRESS), Str(ALL)})
       => (~ret.out.raised /\ ret.out.value = EmptyDict)
    /\ (ret.op = "get_services" /\ files[SERVICES_JSON] = Absent)
       => (~ret.out.raised /\ ret.out.value = EmptyDict)
    /\ (ret.op = "check_availability" /\ files[CALENDAR_JSON] = Absent)
       => (~ret.out.raised /\ ret.out.value[2].available = FALSE)
    /\ (ret.op = "book_appointment" /\ files[CALENDAR_JSON] = Absent)
       => ~ret.out.raised
Finished(p) ==
    pc[p] = "idle" /\ "out" \in DOMAIN frame[p]

\* C2: when two book_appointment calls for the same date and time have run
\* concurrently and both have finished, both report success:true and both
\* appointment records are in the persisted appointment list.
C2_BothBookingsPersisted ==
    (/\ Finished("p1")
     /\ Finished("p2")
     /\ frame["p1"].date = frame["p2"].date
     /\ frame["p1"].time = frame["p2"].time)
    => /\ \A p \in Procs : ~frame[p].out.raised /\ frame[p].out.value[2].success
       /\ \E i, j \in DOMAIN Appointments(files) :
            /\ i # j
            /\ Appointments(files)[i] = frame["p1"].appointment
            /\ Appointments(files)[j] = frame["p2"].appointment

\* the appointment list last written to appointments.json
PersistedAppointments(fs) ==
    IF IsList(LastDocument(fs, APPOINTMENTS_JSON))
    THEN LastDocument(fs, APPOINTMENTS_JSON)[2]
    ELSE <<>>

\* the calendar last written to calendar.json
PersistedCalendar(fs) ==
    LastDocument(fs, CALENDAR_JSON)[2]

\* C6: across any interleaving of the processes' steps, every persisted
\* appointment record stays in the list, unchanged and in its position, and
\* every time in a date's booked_slots stays in it.
C6_StoresOnlyGrow ==
    [][/\ Len(PersistedAppointments(files')) >= Len(PersistedAppointments(files))
       /\ \A i \in DOMAIN PersistedAppointments(files) :
            PersistedAppointments(files')[i] = PersistedAppointments(files)[i]
       /\ \A date \in DOMAIN PersistedCalendar(files) :
            /\ date \in DOMAIN PersistedCalendar(files')
            /\ \A i \in DOMAIN GetList(PersistedCalendar(files)[date], "booked_slots") :
                 InList(GetList(PersistedCalendar(files)[date], "booked_slots")[i],
                        GetList(PersistedCalendar(files')[date], "booked_slots"))]_vars
\* the turn runs tools: the message has a trigger keyword and the reply
\* yields an invocation
Triggered(user_message, ai_response) ==
    UsesTools[user_message] /\ ExtractedCalls[ai_response] # <<>>

\* the envelopes answer the invocations one for one, in their order
AnswersInOrder(tool_calls, tool_results) ==
    /\ Len(tool_results) = Len(tool_calls)
    /\ \A i \in DOMAIN tool_calls :
         IF tool_calls[i].tool_name \in AVAILABLE_TOOLS
         THEN tool_results[i].tool_name = tool_calls[i].tool_name
         ELSE tool_results[i].error = <<"Unknown tool: ", tool_calls[i].tool_name>>

\* how many of the invocations were bookings that succeeded
SuccessfulBookings(tool_calls, tool_results) ==
    Cardinality({i \in DOMAIN tool_calls :
        /\ tool_calls[i].tool_name = BOOK_APPOINTMENT
        /\ "success" \in DOMAIN tool_results[i]
        /\ tool_results[i].success})

\* C11: a chat turn runs tools only if the user message has a trigger
\* keyword and the reply yields at least one invocation; then every
\* extracted invocation is executed exactly once, in extraction order, and
\* the final reply is the formatting of the results in that order. In every
\* other turn no tool is executed, the appointments and the calendar are
\* unchanged and the final reply is the model's raw reply.
C11_ToolsGatedAndOrdered ==
    [][ret'.op = "chat" =>
        IF Triggered(ret'.user_message, ret'.ai_response)
        THEN /\ AnswersInOrder(ExtractedCalls[ret'.ai_response], ret'.tool_results)
             /\ Len(Appointments(files')) = Len(Appointments(files))
                  + SuccessfulBookings(ExtractedCalls[ret'.ai_response], ret'.tool_results)
             /\ ~ret'.out.raised
             /\ ret'.out = process_tool_results(ret'.tool_results)
        ELSE /\ ret'.tool_results = <<>>
             /\ files' = files
             /\ ret'.out = Return(Text(ret'.ai_response))]_vars
\* the entries of a prompt between the system message and the new message
PromptWindow(messages) ==
    SubSeq(messages, 2, Len(messages) - 1)

IsSuffix(t, s) ==
    /\ Len(t) <= Len(s)
    /\ t = SubSeq(s, Len(s) - Len(t) + 1, Len(s))

IsPrefix(t, s) ==
    /\ Len(t) <= Len(s)
    /\ t = SubSeq(s, 1, Len(t))

Min(a, b) ==
    IF a <= b THEN a ELSE b

\* the history as it is when the prompt of the turn is built
HistoryAtPrompt(history, user_message) ==
    Append(history, Message("user", Text(user_message)))

Unbooked(day_data) ==
    SelectSeq(GetList(day_data, "available_slots"),
              LAMBDA slot : \A i \in DOMAIN GetList(day_data, "booked_slots") :
                                GetList(day_data, "booked_slots")[i] # slot)

\* ceil(d / 30)
CeilOfThirty(d) ==
    CHOOSE k \in 0..d : 30 * k >= d /\ 30 * (k - 1) < d

\* the first element of each window of k entries of the list
WindowStarts(unbooked, k) ==
    IF Len(unbooked) - k + 1 > 0 THEN SubSeq(unbooked, 1, Len(unbooked) - k + 1) ELSE <<>>

ExpectedSlots(unbooked, d) ==
    IF d <= 30 THEN unbooked ELSE WindowStarts(unbooked, CeilOfThirty(d))

\* C13: for a date of the calendar whose unbooked list has n entries,
\* check_availability(date, d) returns the whole unbooked list when d <= 30
\* and, when d > 30, the first element of each window of k = ceil(d/30)
\* entries in list order, max(0, n-k+1) start times (k = 2 for 31 and 60,
\* k = 3 for 61); available is true exactly when the list is non-empty.
C13_WindowingMath ==
    (/\ ret.op = "check_availability"
     /\ files[CALENDAR_JSON].kind = "json"
     /\ ret.args[1][2] \in DOMAIN files[CALENDAR_JSON].doc[2])
    => /\ ~ret.out.raised
       /\ ret.out.value[2].available_slots
            = ExpectedSlots(Unbooked(files[CALENDAR_JSON].doc[2][ret.args[1][2]]),
                            ret.args[2][2])
       /\ ret.args[2][2] > 30 =>
            Len(ret.out.value[2].available_slots)
              = IF Len(Unbooked(files[CALENDAR_JSON].doc[2][ret.args[1][2]]))
                     - CeilOfThirty(ret.args[2][2]) + 1 > 0
                THEN Len(Unbooked(files[CALENDAR_JSON].doc[2][ret.args[1][2]]))
                     - CeilOfThirty(ret.args[2][2]) + 1
                ELSE 0
       /\ CeilOfThirty(31) = 2 /\ CeilOfThirty(60) = 2 /\ CeilOfThirty(61) = 3
       /\ ret.out.value[2].available = (Len(ret.out.value[2].available_slots) > 0)

\* three unbooked slots and a 31-minute request: two windows of two slots
C13_Witness ==
    /\ ret.op = "check_availability"
    /\ ret.args = <<Str(DATE_0603), PyInt(31)>>
    /\ ~ret.out.raised
    /\ ret.out.value[2].available_slots = <<Str(T0900), Str(T0930)>>
    /\ ret.out.value[2].available
\* the day's entry after a booking of time: one more booked slot, the rest
\* as it was
DayAfterBooking(before, after, time) ==
    /\ DOMAIN after = DOMAIN before \cup {"booked_slots"}
    /\ after.booked_slots = Append(GetList(before, "booked_slots"), time)
    /\ \A k \in DOMAIN before \ {"booked_slots"} : after[k] = before[k]

\* calendar.json after a booking for date and time
CalendarAfterBooking(before, after, date, time) ==
    IF before.kind = "json" /\ date[2] \in DOMAIN before.doc[2]
    THEN /\ after.kind = "json"
         /\ DOMAIN after.doc[2] = DOMAIN before.doc[2]
         /\ DayAfterBooking(before.doc[2][date[2]], after.doc[2][date[2]], time)
         /\ \A other \in DOMAIN before.doc[2] \ {date[2]} :
              after.doc[2][other] = before.doc[2][other]
    ELSE after = before

\* the appointment list after a booking that returned result
ListAfterBooking(before, after, result) ==
    /\ Len(after) = Len(before) + 1
    /\ SubSeq(after, 1, Len(before)) = before
    /\ after[Len(after)].status = "confirmed"
    /\ after[Len(after)].id = result.appointment_id
    /\ after[Len(after)] = result.appointment

\* C14: book_appointment with its 8 arguments returns success=true without
\* checking availability: it appends exactly one record, with status
\* "confirmed" and the returned id, to the persisted appointment list,
\* appends time to booked_slots of the date if and only if the date is a
\* calendar key, and leaves available_slots and every other date unchanged;
\* also when time is already in booked_slots.
C14_BookingFrame ==
    [][ret'.op = "book_appointment" =>
        /\ ~ret'.out.raised
        /\ ret'.out.value[2].success = TRUE
        /\ ListAfterBooking(Appointments(files), Appointments(files'), ret'.out.value[2])
        /\ CalendarAfterBooking(files[CALENDAR_JSON], files'[CALENDAR_JSON],
                                ret'.args[1], ret'.args[2])
        /\ files'[BUSINESS_INFO_JSON] = files[BUSINESS_INFO_JSON]
        /\ files'[SERVICES_JSON] = files[SERVICES_JSON]]_vars

\* the same slot booked twice in a row: both records persisted, the time
\* twice in booked_slots
C14_Witness ==
    /\ ret.op = "book_appointment"
    /\ ret.args = <<Str(DATE_0602), Str(T0900)>>
    /\ Len(Appointments(files)) = 2
    /\ \A i \in 1..2 : /\ Appointments(files)[i].appointment.date = Str(DATE_0602)
                       /\ Appointments(files)[i].appointment.time = Str(T0900)
    /\ files[CALENDAR_JSON].kind = "json"
    /\ files[CALENDAR_JSON].doc[2][DATE_0602].booked_slots
         = <<Str(T1000), Str(T0900), Str(T0900)>>
\* bookAppointment
BOOK_APPOINTMENT_CAMEL ==
    <<"b","o","o","k","A","p","p","o","i","n","t","m","e","n","t">>
\* quote
QUOTE ==
    <<"q","u","o","t","e">>
\* Jane Doe
JANE_DOE ==
    <<"J","a","n","e"," ","D","o","e">>
\* jane@x.com
JANE_EMAIL ==
    <<"j","a","n","e","@","x",".","c","o","m">>
\* ["Haircut"]
HAIRCUT_LIST ==
    <<"[","\"","H","a","i","r","c","u","t","\"","]">>

\* the form of each piece of Fragments
PREFIXED ==
    "prefixed"

BRACKETED ==
    "bracketed"

PROSE ==
    "prose"

FormOf ==
    <<PREFIXED, BRACKETED, PREFIXED, BRACKETED, PROSE>>

\* the invocation each piece of Fragments stands for: its pieces between
\* commas, trimmed, unquoted, the numeric ones as numbers
InvocationOf ==
    <<[tool_name |-> BOOK_APPOINTMENT_CAMEL,
       args |-> <<Str(JANE_DOE), Str(PHONE), Str(JANE_EMAIL), Str(DATE_0602),
                  Str(T1000), Str(HAIRCUT_LIST), PyInt(45), PyInt(30)>>],
      [tool_name |-> CHECK_AVAILABILITY, args |-> <<Str(DATE_0602), PyInt(60)>>],
      [tool_name |-> GET_SERVICES, args |-> <<>>],
      [tool_name |-> QUOTE,
       args |-> <<<<"float", "+", 4, <<"5">>>>, PyInt(0 - 3), PyInt(7)>>]>>

\* the invocations of the pieces of one form, in text order
RECURSIVE InvocationsOfForm(_, _, _)
InvocationsOfForm(pieces, form, i) ==
    IF i > Len(pieces) THEN <<>>
    ELSE (IF FormOf[pieces[i]] = form THEN <<InvocationOf[pieces[i]]>> ELSE <<>>)
         \o InvocationsOfForm(pieces, form, i + 1)

SameInvocation(a, b) ==
    /\ a.tool_name = b.tool_name
    /\ Len(a.args) = Len(b.args)
    /\ \A k \in DOMAIN a.args : a.args[k][1] = b.args[k][1] /\ a.args[k] = b.args[k]

SameInvocations(s, t) ==
    /\ Len(s) = Len(t)
    /\ \A k \in DOMAIN s : SameInvocation(s[k], t[k])

\* C15: extraction returns the matches of the prefixed form TOOL: name(args)
\* in text order, then the matches of the bracketed form [name(args)] in
\* text order; the args of each are the comma-separated pieces of its
\* argument string in order, trimmed and unquoted, numeric pieces as
\* numbers and the others as text. The reply whose only tool syntax is
\* TOOL: bookAppointment("Jane Doe","555-1111","jane@x.com","2025-06-02",
\* "10:00",["Haircut"],45,30) yields exactly one invocation, named
\* bookAppointment, with 8 arguments: six texts, then two integers.
C15_ExtractionOrderAndCoercion ==
    ret.op = "extract_tool_calls" =>
        /\ ~ret.out.raised
        /\ SameInvocations(ret.out.value,
               InvocationsOfForm(ret.pieces, PREFIXED, 1)
                 \o InvocationsOfForm(ret.pieces, BRACKETED, 1))
        /\ (\A i \in DOMAIN ret.pieces : ret.pieces[i] \in {1, 5})
           /\ Cardinality({i \in DOMAIN ret.pieces : ret.pieces[i] = 1}) = 1
           => /\ Len(ret.out.value) = 1
              /\ ret.out.value[1].tool_name = BOOK_APPOINTMENT_CAMEL
              /\ Len(ret.out.value[1].args) = 8
              /\ \A k \in 1..6 : IsStr(ret.out.value[1].args[k])
              /\ \A k \in 7..8 : IsInt(ret.out.value[1].args[k])

\* a bracketed invocation written before a prefixed one is returned after it
C15_Witness ==
    /\ ret.op = "extract_tool_calls"
    /\ ret.pieces = <<4, 5, 1>>
    /\ Len(ret.out.value) = 2
    /\ ret.out.value[1].tool_name = BOOK_APPOINTMENT_CAMEL
    /\ ret.out.value[2].tool_name = QUOTE
    /\ ret.out.value[2].args[2] = PyInt(0 - 3)
\* the entries of a prompt that precede the current user message
EarlierEntries(messages) ==
    SubSeq(messages, 2, Len(messages) - 2)

ReadableCalendar(fs) ==
    load_json_file(fs, CALENDAR_JSON)[2]

IsCalendarKey(fs, date) ==
    IsStr(date) /\ date[2] \in DOMAIN ReadableCalendar(fs)

BookedSlots(fs, date) ==
    IF IsCalendarKey(fs, date)
    THEN GetList(ReadableCalendar(fs)[date[2]], "booked_slots")
    ELSE <<>>

\* C17: whenever executing book_appointment yields a failed result, from a
\* wrong argument count, a non-text date or an I/O failure while reading or
\* writing a store file, neither appointments.json nor the calendar has
\* been modified; and a booking for a date of the calendar never leaves
\* only one of the appointment list and the date's booked_slots updated.
C17_FailedBookingChangesNothing ==
    [][(ret'.op = "execute_tool" /\ ret'.tool_name = BOOK_APPOINTMENT) =>
        /\ ~ret'.out.value.success =>
             /\ files'[APPOINTMENTS_JSON] = files[APPOINTMENTS_JSON]
             /\ files'[CALENDAR_JSON] = files[CALENDAR_JSON]
        /\ (Len(ret'.args) = 8 /\ IsCalendarKey(files, ret'.args[4])) =>
             ((Appointments(files') # Appointments(files))
              <=> (BookedSlots(files', ret'.args[4]) # BookedSlots(files, ret'.args[4])))]_vars
=============================================================================
